---- MODULE Spec2Model ----
(***************************************************************************)
(* Taxi macro-revenue simulation (taxi_macro_sim.py, simulation.py):       *)
(* congestion model, greedy allocation, slot assignment, the per-slot      *)
(* state machine of the two strategies and the revenue lookup.             *)
(*                                                                         *)
(* Units.  The source computes in floating point.  Here                    *)
(*   - time and hours_left are counted in quarter hours (DT = 0.5 h = 2),  *)
(*   - base revenues are integers (whole currency units),                  *)
(*   - realized revenue is counted in 1/SatScale currency units, with      *)
(*     exp(-alpha*n) taken from a table rounded to 1/SatScale,             *)
(*   - alpha is counted in tenths (0.6 = 6).                               *)
(***************************************************************************)
EXTENDS Integers, Sequences, FiniteSets, TLC

\* ------------------------------------------------------------------- state
\* one call of greedy_macro_allocation: its arguments, counts and loop index
VARIABLES g_num_drivers, g_revenues, g_model, g_alpha, g_counts, g_iter, g_pc

gvars == <<g_num_drivers, g_revenues, g_model, g_alpha, g_counts, g_iter, g_pc>>

\* one call of expected_revenue_vector: its arguments and its result
VARIABLES o_df, o_day, o_time, o_weather, o_n_clusters, o_rev, o_pc

ovars == <<o_df, o_day, o_time, o_weather, o_n_clusters, o_rev, o_pc>>

\* one trial: the parameters, the Driver objects, the two populations, the
\* clock, the totals, the locals of the slot loop and the animation's trace
VARIABLES impl, df_rev, n_clusters, n_drivers, time_horizon_hours, steps, model,
          alpha, weather,
          heap, drivers_rec, drivers_rand, day, time_h, total_rec, total_rand,
          slot, pc, revenues_vec, active, counts, targets, staying_clusters, movers,
          rec_old, rec_new, rec_rev, rnd_old, rnd_new, rnd_rev

config == <<impl, df_rev, n_clusters, n_drivers, time_horizon_hours, steps, model,
            alpha, weather>>

clock == <<day, time_h, slot>>

trace == <<rec_old, rec_new, rec_rev, rnd_old, rnd_new, rnd_rev>>

svars == <<config, heap, drivers_rec, drivers_rand, clock, total_rec, total_rand,
           pc, revenues_vec, active, counts, targets, staying_clusters, movers, trace>>

\* ------------------------------------------------------------------ bounds
\* zones and drivers of a greedy_macro_allocation call
MaxClusters == 3
MaxAllocDrivers == 4
\* drivers of a trial
MaxDrivers == 2
\* rows of a revenue table given to expected_revenue_vector
MaxRows == 2

\* --------------------------------------------------------------- constants
\* slot size: 0.5 h, in quarter hours
DT == 2
\* saturation curvature 0.6, in tenths
DEFAULT_ALPHA == 6
\* realized revenue is counted in units of 1/SatScale
SatScale == 1000000
\* best_gain starts at -1e18, below every gain; -2e9 is below every gain that
\* occurs here and fits the checker's integers
BestGainInit == -2000000000
\* day = (day + 1) % 7
DaysPerWeek == 7

\* h hours in quarter hours
Hours(h) == 4 * h
\* % 24.0
DayLen == Hours(24)

ValidModels == {"saturation", "split"}
Models == ValidModels \cup {"bogus"}
Alphas == {3, DEFAULT_ALPHA, 12}

\* 10^6 * exp(-m/10), rounded, for m = 0..160; 0 beyond
ExpTable ==
    << 1000000, 904837, 818731, 740818, 670320, 606531, 548812, 496585,
       449329, 406570, 367879, 332871, 301194, 272532, 246597, 223130,
       201897, 182684, 165299, 149569, 135335, 122456, 110803, 100259,
       90718, 82085, 74274, 67206, 60810, 55023, 49787, 45049,
       40762, 36883, 33373, 30197, 27324, 24724, 22371, 20242,
       18316, 16573, 14996, 13569, 12277, 11109, 10052, 9095,
       8230, 7447, 6738, 6097, 5517, 4992, 4517, 4087,
       3698, 3346, 3028, 2739, 2479, 2243, 2029, 1836,
       1662, 1503, 1360, 1231, 1114, 1008, 912, 825,
       747, 676, 611, 553, 500, 453, 410, 371,
       335, 304, 275, 249, 225, 203, 184, 167,
       151, 136, 123, 112, 101, 91, 83, 75,
       68, 61, 55, 50, 45, 41, 37, 34,
       30, 28, 25, 23, 20, 18, 17, 15,
       14, 12, 11, 10, 9, 8, 8, 7,
       6, 6, 5, 5, 4, 4, 3, 3,
       3, 2, 2, 2, 2, 2, 2, 1,
       1, 1, 1, 1, 1, 1, 1, 1,
       1, 1, 0, 0, 0, 0, 0, 0,
       0, 0, 0, 0, 0, 0, 0, 0,
       0 >>

ExpNeg(m) == IF m + 1 <= Len(ExpTable) THEN ExpTable[m + 1] ELSE 0

\* ------------------------------------------------------- congestion models
macro_saturation(n, R, a) ==
    IF n <= 0 THEN 0 ELSE R * (SatScale - ExpNeg(a * n))

macro_split(n, R) == IF n > 0 THEN R * SatScale ELSE 0

\* number of entries of a sequence of zone ids equal to k (np.bincount)
RECURSIVE bincount(_, _)
bincount(assignments, k) ==
    IF assignments = << >> THEN 0
    ELSE (IF Head(assignments) = k THEN 1 ELSE 0) + bincount(Tail(assignments), k)

RECURSIVE SumTo(_, _)
SumTo(f, k) == IF k < 0 THEN 0 ELSE f[k] + SumTo(f, k - 1)

\* sum of a function over 0..K-1
SumOver(f) == SumTo(f, Cardinality(DOMAIN f) - 1)

\* raise ValueError('Unknown model')
compute_macro_raises(m) == m \notin ValidModels

\* the value compute_macro returns for a valid model name
compute_macro(assignments, revenues, m, a) ==
    SumOver([k \in DOMAIN revenues |->
                IF m = "saturation"
                THEN macro_saturation(bincount(assignments, k), revenues[k], a)
                ELSE macro_split(bincount(assignments, k), revenues[k])])

\* ------------------------------------------------------- greedy allocation
\* the model branch of greedy_macro_allocation: any name but 'saturation' is
\* treated as 'split'
Realized(n, R, m, a) ==
    IF m = "saturation" THEN macro_saturation(n, R, a) ELSE macro_split(n, R)

\* variant of Gain that forgets to subtract the current revenue of the zone
GainTotalOnly(cnt, revenues, m, a, k) == Realized(cnt[k] + 1, revenues[k], m, a)

\* gain = new - cur
Gain(cnt, revenues, m, a, k) ==
    Realized(cnt[k] + 1, revenues[k], m, a) - Realized(cnt[k], revenues[k], m, a)

\* variant of ScanBest that also replaces the best zone on an equal gain
RECURSIVE ScanBestLastTie(_, _, _, _, _, _, _)
ScanBestLastTie(k, best_k, best_gain, cnt, revenues, m, a) ==
    IF k >= Cardinality(DOMAIN revenues) THEN best_k
    ELSE LET gain == Gain(cnt, revenues, m, a, k)
         IN  IF gain >= best_gain
             THEN ScanBestLastTie(k + 1, k, gain, cnt, revenues, m, a)
             ELSE ScanBestLastTie(k + 1, best_k, best_gain, cnt, revenues, m, a)

\* for k in range(K): if gain > best_gain: best_gain, best_k = gain, k
RECURSIVE ScanBest(_, _, _, _, _, _, _)
ScanBest(k, best_k, best_gain, cnt, revenues, m, a) ==
    IF k >= Cardinality(DOMAIN revenues) THEN best_k
    ELSE LET gain == Gain(cnt, revenues, m, a, k)
         IN  IF gain > best_gain
             THEN ScanBest(k + 1, k, gain, cnt, revenues, m, a)
             ELSE ScanBest(k + 1, best_k, best_gain, cnt, revenues, m, a)

BestK(cnt, revenues, m, a) == ScanBest(0, 0, BestGainInit, cnt, revenues, m, a)

\* variant of GreedyIter that places a driver only when some zone has a positive gain
GreedyIterSkipNoGain(cnt, revenues, m, a) ==
    LET best_k == BestK(cnt, revenues, m, a)
    IN  IF Gain(cnt, revenues, m, a, best_k) > 0
        THEN [cnt EXCEPT ![best_k] = @ + 1]
        ELSE cnt

\* one iteration of the loop: counts[best_k] += 1
GreedyIter(cnt, revenues, m, a) ==
    [cnt EXCEPT ![BestK(cnt, revenues, m, a)] = @ + 1]

ZeroCounts(revenues) == [k \in DOMAIN revenues |-> 0]

RECURSIVE GreedyLoop(_, _, _, _, _)
GreedyLoop(i, cnt, revenues, m, a) ==
    IF i <= 0 THEN cnt
    ELSE GreedyLoop(i - 1, GreedyIter(cnt, revenues, m, a), revenues, m, a)

greedy_macro_allocation(num_drivers, revenues, m, a) ==
    GreedyLoop(num_drivers, ZeroCounts(revenues), revenues, m, a)

\* ---------------------------------------------------------- revenue lookup
\* A revenue table is a sequence of rows
\*   [day, time, weather, cluster_id, expected_revenue]  (time in quarter hours)
Abs(x) == IF x < 0 THEN -x ELSE x

Min2(x, y) == IF x <= y THEN x ELSE y

\* distance on the circular 24 h clock (_nearest_time_index)
CircDelta(s, t) == Min2(Abs(s - t), DayLen - Abs(s - t))

SubsetRows(df, q_day, q_weather) ==
    LET same_day_weather == SelectSeq(df, LAMBDA r : r.day = q_day /\ r.weather = q_weather)
        same_day == SelectSeq(df, LAMBDA r : r.day = q_day)
    IN  IF Len(same_day_weather) > 0 THEN same_day_weather
        ELSE IF Len(same_day) > 0 THEN same_day
        ELSE df

\* The values groupby('cluster_id').first() can give for zone k after the rows
\* were reordered by argsort of the time distance.  np.argsort's default sort
\* is not stable, so among rows of zone k at the same minimal distance any one
\* may come first.
FirstValues(subset, t, k) ==
    LET idx == {i \in 1..Len(subset) : subset[i].cluster_id = k}
        nearest == {i \in idx : \A j \in idx :
                        CircDelta(subset[i].time, t) <= CircDelta(subset[j].time, t)}
    IN  {subset[i].expected_revenue : i \in nearest}

ClusterIds(df) == {df[i].cluster_id : i \in 1..Len(df)}

RECURSIVE SumRevenue(_)
SumRevenue(rows) ==
    IF rows = << >> THEN 0 ELSE Head(rows).expected_revenue + SumRevenue(Tail(rows))

\* df.groupby('cluster_id')['expected_revenue'].mean() at k.  The tables used
\* here hold values whose means are whole numbers, so the division is exact.
ZoneMean(df, k) ==
    LET rows == SelectSeq(df, LAMBDA r : r.cluster_id = k)
    IN  SumRevenue(rows) \div Len(rows)

RECURSIVE SumZoneMeans(_, _)
SumZoneMeans(df, ids) ==
    IF ids = {} THEN 0
    ELSE LET k == CHOOSE x \in ids : TRUE
         IN  ZoneMean(df, k) + SumZoneMeans(df, ids \ {k})

\* global_means.mean()
MeanOfMeans(df) == SumZoneMeans(df, ClusterIds(df)) \div Cardinality(ClusterIds(df))

\* global_means.get(k, global_means.mean())
GlobalMeanGet(df, k) ==
    IF k \in ClusterIds(df) THEN ZoneMean(df, k) ELSE MeanOfMeans(df)

\* rev[k] after the fallback fill: a zero entry (zone missing from the selected
\* rows, or a selected value of 0) is replaced by the zone's global mean
FillZero(df, k, v) == IF v = 0 THEN GlobalMeanGet(df, k) ELSE v

RevOptions(df, q_day, q_time, q_weather, k) ==
    LET vals == FirstValues(SubsetRows(df, q_day % DaysPerWeek, q_weather),
                            q_time % DayLen, k)
    IN  {FillZero(df, k, v) : v \in (IF vals = {} THEN {0} ELSE vals)}

\* the vectors expected_revenue_vector can return
expected_revenue_vector(df, q_day, q_time, q_weather, K) ==
    LET opts == [k \in 0..(K - 1) |-> RevOptions(df, q_day, q_time, q_weather, k)]
    IN  {rev \in [0..(K - 1) -> UNION {opts[k] : k \in 0..(K - 1)}] :
            \A k \in 0..(K - 1) : rev[k] \in opts[k]}

Row(d, t, w, k, r) ==
    [day |-> d, time |-> t, weather |-> w, cluster_id |-> k, expected_revenue |-> r]

AllocRevValues == {-3, 0, 4, 10}

GreedyInit ==
    /\ g_num_drivers \in 0..MaxAllocDrivers
    /\ \E K \in 1..MaxClusters : g_revenues \in [0..(K - 1) -> AllocRevValues]
    /\ g_model \in Models
    /\ g_alpha \in Alphas
    /\ g_counts = ZeroCounts(g_revenues)
    /\ g_iter = 0
    /\ g_pc = "loop"

GreedyIterate ==
    /\ g_pc = "loop"
    /\ g_iter < g_num_drivers
    /\ g_counts' = GreedyIter(g_counts, g_revenues, g_model, g_alpha)
    /\ g_iter' = g_iter + 1
    /\ UNCHANGED <<g_num_drivers, g_revenues, g_model, g_alpha, g_pc>>
    /\ UNCHANGED <<ovars, svars>>

GreedyReturn ==
    /\ g_pc = "loop"
    /\ g_iter >= g_num_drivers
    /\ g_pc' = "done"
    /\ UNCHANGED <<g_num_drivers, g_revenues, g_model, g_alpha, g_counts, g_iter>>
    /\ UNCHANGED <<ovars, svars>>


OracleRows ==
    {Row(d, t, w, k, r) : d \in {0, 1}, t \in {Hours(1), Hours(3)},
                          w \in {"clear", "rain"}, k \in {0, 1}, r \in {-12, 0, 12}}

OracleInit ==
    /\ \E n \in 1..MaxRows : o_df \in [1..n -> OracleRows]
    /\ o_day \in {0, 2, 8}
    /\ o_time \in {Hours(2), Hours(23) + DT}
    /\ o_weather \in {"clear", "snow"}
    /\ o_n_clusters \in {2, 3}
    /\ o_rev = << >>
    /\ o_pc = "call"

Lookup ==
    /\ o_pc = "call"
    /\ o_rev' \in expected_revenue_vector(o_df, o_day, o_time, o_weather, o_n_clusters)
    /\ o_pc' = "returned"
    /\ UNCHANGED <<o_df, o_day, o_time, o_weather, o_n_clusters>>
    /\ UNCHANGED <<gvars, svars>>

\* ------------------------------------------------------------- simulation
\* Driver objects live in a heap (object id -> fields); a population is a list
\* of object ids, as a Python list of Driver references is.
Driver(c, h) == [cluster |-> c, hours_left |-> h]

Max2(x, y) == IF x >= y THEN x ELSE y

Range(seq) == {seq[i] : i \in 1..Len(seq)}

\* variant of ActiveDrivers that also selects drivers with hours_left = 0
ActiveDriversIncludingSpent(h, drivers) ==
    SelectSeq(drivers, LAMBDA id : h[id].hours_left >= 0)

\* [d for d in drivers if d.hours_left > 0]
ActiveDrivers(h, drivers) == SelectSeq(drivers, LAMBDA id : h[id].hours_left > 0)

\* slots += [k] * int(c), zones in index order
RECURSIVE SlotsFrom(_, _)
SlotsFrom(target_counts, k) ==
    IF k >= Cardinality(DOMAIN target_counts) THEN << >>
    ELSE [i \in 1..target_counts[k] |-> k] \o SlotsFrom(target_counts, k + 1)

Slots(target_counts) == SlotsFrom(target_counts, 0)

Perms(n) == {p \in [1..n -> 1..n] : \A i, j \in 1..n : p[i] = p[j] => i = j}

\* variant of ArgsortDesc that ranks by hours_left ascending
ArgsortAsc(hours) ==
    {p \in Perms(Len(hours)) :
        \A i, j \in 1..Len(hours) : i < j => hours[p[i]] <= hours[p[j]]}

\* np.argsort([-d.hours_left ...]): the default sort is not stable, so drivers
\* of equal hours_left may come out in any relative order
ArgsortDesc(hours) ==
    {p \in Perms(Len(hours)) :
        \A i, j \in 1..Len(hours) : i < j => hours[p[i]] >= hours[p[j]]}

\* sorted(active_idx, key=-hours_left): Python's sort is stable
SortedDesc(hours) ==
    CHOOSE p \in ArgsortDesc(hours) :
        \A i, j \in 1..Len(hours) :
            (i < j /\ hours[p[i]] = hours[p[j]]) => p[i] < p[j]

\* targets[didx] = slots[i] for the i-th entry didx of order
TargetsByOrder(order, slots) ==
    [didx \in 1..Len(order) |->
        slots[CHOOSE i \in 1..Len(order) : order[i] = didx]]

HoursOf(h, act) == [i \in 1..Len(act) |-> h[act[i]].hours_left]

\* the target lists assign_recommendation can return
assign_recommendation(h, act, target_counts) ==
    {TargetsByOrder(order, Slots(target_counts)) : order \in ArgsortDesc(HoursOf(h, act))}

\* the target list simulate_path_for_animation builds in place
AnimTargets(h, act, target_counts) ==
    TargetsByOrder(SortedDesc(HoursOf(h, act)), Slots(target_counts))

\* the positions of act whose target is (stay) or is not (move) the driver's zone,
\* in the order the loop visits them
RECURSIVE Pick(_, _, _, _, _)
Pick(h, act, tg, visit, staying) ==
    IF visit = << >> THEN << >>
    ELSE LET i == Head(visit)
             rest == Pick(h, act, tg, Tail(visit), staying)
         IN  IF (tg[i] = h[act[i]].cluster) = staying THEN <<i>> \o rest ELSE rest

\* variant of StayPos that also takes a driver whose target is a lower zone
StayPosLower(h, act, tg, visit) ==
    SelectSeq(Pick(h, act, tg, visit, TRUE) \o Pick(h, act, tg, visit, FALSE),
              LAMBDA i : tg[i] <= h[act[i]].cluster)

StayPos(h, act, tg, visit) == Pick(h, act, tg, visit, TRUE)

MovePos(h, act, tg, visit) == Pick(h, act, tg, visit, FALSE)

\* variant of ApplyMoves in which a move costs no shift time
ApplyMovesKeepHours(h, act, tg) ==
    [id \in DOMAIN h |->
        IF \E i \in 1..Len(act) : act[i] = id /\ tg[i] /= h[id].cluster
        THEN [cluster |-> tg[CHOOSE i \in 1..Len(act) : act[i] = id /\ tg[i] /= h[id].cluster],
              hours_left |-> h[id].hours_left + DT]
        ELSE h[id]]

\* d.cluster = int(tgt) for every mover
ApplyMoves(h, act, tg) ==
    [id \in DOMAIN h |->
        IF \E i \in 1..Len(act) : act[i] = id /\ tg[i] /= h[id].cluster
        THEN [h[id] EXCEPT !.cluster =
                  tg[CHOOSE i \in 1..Len(act) : act[i] = id /\ tg[i] /= h[id].cluster]]
        ELSE h[id]]

\* variant of DecrementHours that skips drivers with at most DT left
DecrementHoursAboveDT(h, act) ==
    [id \in DOMAIN h |->
        IF id \in Range(act) /\ h[id].hours_left > DT
        THEN [h[id] EXCEPT !.hours_left = Max2(0, @ - DT)]
        ELSE h[id]]

\* d.hours_left = max(0.0, d.hours_left - DT) for every active driver
DecrementHours(h, act) ==
    [id \in DOMAIN h |->
        IF id \in Range(act)
        THEN [h[id] EXCEPT !.hours_left = Max2(0, @ - DT)]
        ELSE h[id]]

IdSeq(n) == [i \in 1..n |-> i]

\* variant of SlotRevenue that counts every active driver at its target zone
RevenueOfAllActive(h, act, tg, visit, rev, m, a) ==
    compute_macro([i \in 1..Len(act) |-> tg[i]], rev, m, a)

\* the revenue of the slot: compute_macro over the stayers' zones, 0 without stayers
SlotRevenue(h, act, tg, visit, rev, m, a) ==
    LET stay == StayPos(h, act, tg, visit)
    IN  IF Len(stay) > 0
        THEN compute_macro([j \in 1..Len(stay) |-> h[act[stay[j]]].cluster], rev, m, a)
        ELSE 0

\* One strategy's part of a slot of simulate_once, for the active drivers act
\* with targets tg: movers are relocated, then compute_macro runs (and raises
\* for an unknown model when there is a stayer), then hours are decremented.
OncePhase(h, act, tg, rev, m, a) ==
    LET visit == IdSeq(Len(act))
        stay == StayPos(h, act, tg, visit)
        move == MovePos(h, act, tg, visit)
        raised == Len(stay) > 0 /\ compute_macro_raises(m)
        moved == ApplyMoves(h, act, tg)
    IN  [raised |-> raised,
         heap |-> IF raised THEN moved ELSE DecrementHours(moved, act),
         staying_clusters |-> [j \in 1..Len(stay) |-> h[act[stay[j]]].cluster],
         movers |-> [j \in 1..Len(move) |-> act[move[j]]],
         revenue |-> IF raised THEN 0 ELSE SlotRevenue(h, act, tg, visit, rev, m, a)]

\* The same part of a slot in simulate_path_for_animation, visiting the active
\* drivers in the order visit: compute_macro runs before any driver is changed.
AnimPhase(h, act, tg, visit, rev, m, a) ==
    LET stay == StayPos(h, act, tg, visit)
        move == MovePos(h, act, tg, visit)
        raised == Len(stay) > 0 /\ compute_macro_raises(m)
    IN  [raised |-> raised,
         heap |-> IF raised THEN h
                  ELSE ApplyMoves(DecrementHours(h, act), act, tg),
         staying_clusters |-> [j \in 1..Len(stay) |-> h[act[stay[j]]].cluster],
         movers |-> [j \in 1..Len(move) |-> act[move[j]]],
         revenue |-> IF raised THEN 0 ELSE SlotRevenue(h, act, tg, visit, rev, m, a)]

\* n_clusters (DEFAULT_N_CLUSTERS is 6); two zones are modelled
SimClusterCounts == {2}

\* hours_left = float(rng.integers(1, 9)) hours; the first two values are drawn
InitHours == {Hours(1), Hours(2)}

StartDays == {6}

\* time_horizon_hours: 1.25 h
Horizons == {Hours(1) + 1}

\* variant of CeilDiv that rounds down
FloorDiv(x, y) == x \div y

\* int(np.ceil(time_horizon_hours / DT))
CeilDiv(x, y) == (x + y - 1) \div y

\* 23:15 (not a multiple of DT) and 23:30
StartTimes == {Hours(23) + 1, Hours(23) + DT}

TableDense ==
    << Row(6, Hours(23), "clear", 0, 10), Row(6, Hours(23), "clear", 1, 4),
       Row(0, 0, "clear", 0, 4), Row(0, 0, "clear", 1, 10) >>

TableSparse ==
    << Row(0, 0, "rain", 0, 12), Row(6, Hours(23), "clear", 0, 0) >>

SimTables == {TableDense, TableSparse}

\* variant of NewDriversRand that reuses the Driver objects of drivers_rec
AliasedDriversRand(n) == [i \in 1..n |-> i]

\* drivers_rand = [Driver(cluster=d.cluster, hours_left=d.hours_left) for d in
\* drivers_rec]: n new objects, with ids n+1..2n
NewDriversRand(n) == [i \in 1..n |-> n + i]

SimInit ==
    /\ impl \in {"once", "anim"}
    /\ df_rev \in SimTables
    /\ n_clusters \in SimClusterCounts
    /\ n_drivers \in 1..MaxDrivers
    /\ time_horizon_hours \in Horizons
    /\ steps = CeilDiv(time_horizon_hours, DT)
    /\ model \in Models
    /\ alpha = DEFAULT_ALPHA
    /\ weather = "clear"
    /\ day \in StartDays
    /\ time_h \in StartTimes
    /\ drivers_rec = IdSeq(n_drivers)
    /\ drivers_rand = NewDriversRand(n_drivers)
    /\ \E pop \in [1..n_drivers ->
                     {Driver(c, h) : c \in 0..(n_clusters - 1), h \in InitHours}] :
          heap = [id \in 1..(2 * n_drivers) |-> pop[((id - 1) % n_drivers) + 1]]
    /\ total_rec = 0
    /\ total_rand = 0
    /\ slot = 0
    /\ pc = IF steps > 0 THEN "rec" ELSE "done"
    /\ revenues_vec = << >>
    /\ active = << >>
    /\ counts = << >>
    /\ targets = << >>
    /\ staying_clusters = << >>
    /\ movers = << >>
    /\ rec_old = << >> /\ rec_new = << >> /\ rec_rev = << >>
    /\ rnd_old = << >> /\ rnd_new = << >> /\ rnd_rev = << >>

ClustersOf(h, drivers) == [i \in 1..Len(drivers) |-> h[drivers[i]].cluster]

\* new_clusters: the old clusters with each mover's entry set to its target
NewClusters(h, drivers, act, tg) ==
    [i \in 1..Len(drivers) |->
        IF \E j \in 1..Len(act) : act[j] = drivers[i] /\ tg[j] /= h[drivers[i]].cluster
        THEN tg[CHOOSE j \in 1..Len(act) : act[j] = drivers[i]]
        ELSE h[drivers[i]].cluster]

\* ----- Recommendation strategy of one slot, simulate_once
OnceRec ==
    /\ impl = "once" /\ pc = "rec"
    /\ \E rev \in expected_revenue_vector(df_rev, day, time_h, weather, n_clusters) :
       \E act \in {ActiveDrivers(heap, drivers_rec)} :
           /\ revenues_vec' = rev
           /\ active' = act
           /\ IF act = << >>
              THEN /\ counts' = << >> /\ targets' = << >>
                   /\ staying_clusters' = << >> /\ movers' = << >>
                   /\ pc' = "rand"
                   /\ UNCHANGED <<heap, total_rec>>
              ELSE \E cnt \in {greedy_macro_allocation(Len(act), rev, model, alpha)} :
                       \E tg \in assign_recommendation(heap, act, cnt) :
                       \E r \in {OncePhase(heap, act, tg, rev, model, alpha)} :
                           /\ counts' = cnt
                           /\ targets' = tg
                           /\ staying_clusters' = r.staying_clusters
                           /\ movers' = r.movers
                           /\ heap' = r.heap
                           /\ total_rec' = total_rec + r.revenue
                           /\ pc' = IF r.raised THEN "error" ELSE "rand"
    /\ UNCHANGED <<config, drivers_rec, drivers_rand, clock, total_rand, trace>>
    /\ UNCHANGED <<gvars, ovars>>

\* advance clock
AdvanceTime(t) == (t + DT) % DayLen

\* if abs(time_h) < 1e-9: day = (day + 1) % 7
AdvanceDay(d, t) == IF AdvanceTime(t) = 0 THEN (d + 1) % DaysPerWeek ELSE d

AfterSlot ==
    /\ time_h' = AdvanceTime(time_h)
    /\ day' = AdvanceDay(day, time_h)
    /\ slot' = slot + 1
    /\ pc' = IF slot + 1 < steps THEN "rec" ELSE "done"

\* ----- Random strategy of one slot and the clock, simulate_once
OnceRand ==
    /\ impl = "once" /\ pc = "rand"
    /\ \E act \in {ActiveDrivers(heap, drivers_rand)} :
           /\ active' = act
           /\ counts' = << >>
           /\ IF act = << >>
              THEN /\ targets' = << >> /\ staying_clusters' = << >> /\ movers' = << >>
                   /\ UNCHANGED <<heap, total_rand>>
                   /\ AfterSlot
              ELSE \E tg \in [1..Len(act) -> 0..(n_clusters - 1)] :
                       \E r \in {OncePhase(heap, act, tg, revenues_vec, model, alpha)} :
                           /\ targets' = tg
                           /\ staying_clusters' = r.staying_clusters
                           /\ movers' = r.movers
                           /\ heap' = r.heap
                           /\ total_rand' = total_rand + r.revenue
                           /\ IF r.raised
                              THEN pc' = "error" /\ UNCHANGED clock
                              ELSE AfterSlot
    /\ UNCHANGED <<config, drivers_rec, drivers_rand, total_rec, revenues_vec, trace>>
    /\ UNCHANGED <<gvars, ovars>>

\* ----- Recommendation strategy of one slot, simulate_path_for_animation
AnimRec ==
    /\ impl = "anim" /\ pc = "rec"
    /\ \E rev \in expected_revenue_vector(df_rev, day, time_h, weather, n_clusters) :
       \E act \in {ActiveDrivers(heap, drivers_rec)} :
           /\ revenues_vec' = rev
           /\ active' = act
           /\ rec_old' = Append(rec_old, ClustersOf(heap, drivers_rec))
           /\ IF act = << >>
              THEN /\ counts' = << >> /\ targets' = << >>
                   /\ staying_clusters' = << >> /\ movers' = << >>
                   /\ rec_new' = Append(rec_new, ClustersOf(heap, drivers_rec))
                   /\ rec_rev' = Append(rec_rev, 0)
                   /\ pc' = "rand"
                   /\ UNCHANGED heap
              ELSE \E cnt \in {greedy_macro_allocation(Len(act), rev, model, alpha)} :
                   \E tg \in {AnimTargets(heap, act, cnt)} :
                   \E r \in {AnimPhase(heap, act, tg, SortedDesc(HoursOf(heap, act)),
                                       rev, model, alpha)} :
                       /\ counts' = cnt
                       /\ targets' = tg
                       /\ staying_clusters' = r.staying_clusters
                       /\ movers' = r.movers
                       /\ heap' = r.heap
                       /\ IF r.raised
                          THEN pc' = "error" /\ UNCHANGED <<rec_new, rec_rev>>
                          ELSE /\ rec_new' = Append(rec_new,
                                       NewClusters(heap, drivers_rec, act, tg))
                               /\ rec_rev' = Append(rec_rev, r.revenue)
                               /\ pc' = "rand"
    /\ UNCHANGED <<config, drivers_rec, drivers_rand, clock, total_rec, total_rand,
                   rnd_old, rnd_new, rnd_rev>>
    /\ UNCHANGED <<gvars, ovars>>

\* ----- Random strategy of one slot and the clock, simulate_path_for_animation
AnimRand ==
    /\ impl = "anim" /\ pc = "rand"
    /\ \E act \in {ActiveDrivers(heap, drivers_rand)} :
           /\ active' = act
           /\ counts' = << >>
           /\ rnd_old' = Append(rnd_old, ClustersOf(heap, drivers_rand))
           /\ IF act = << >>
              THEN /\ targets' = << >> /\ staying_clusters' = << >> /\ movers' = << >>
                   /\ rnd_new' = Append(rnd_new, ClustersOf(heap, drivers_rand))
                   /\ rnd_rev' = Append(rnd_rev, 0)
                   /\ UNCHANGED heap
                   /\ AfterSlot
              ELSE \E tg \in [1..Len(act) -> 0..(n_clusters - 1)] :
                       \E r \in {AnimPhase(heap, act, tg, IdSeq(Len(act)),
                                          revenues_vec, model, alpha)} :
                           /\ targets' = tg
                           /\ staying_clusters' = r.staying_clusters
                           /\ movers' = r.movers
                           /\ heap' = r.heap
                           /\ IF r.raised
                              THEN /\ pc' = "error"
                                   /\ UNCHANGED <<clock, rnd_new, rnd_rev>>
                              ELSE /\ rnd_new' = Append(rnd_new,
                                           NewClusters(heap, drivers_rand, act, tg))
                                   /\ rnd_rev' = Append(rnd_rev, r.revenue)
                                   /\ AfterSlot
    /\ UNCHANGED <<config, drivers_rec, drivers_rand, total_rec, total_rand,
                   revenues_vec, rec_old, rec_new, rec_rev>>
    /\ UNCHANGED <<gvars, ovars>>

SimIdle ==
    /\ impl = "none" /\ df_rev = << >> /\ n_clusters = 0 /\ n_drivers = 0
    /\ time_horizon_hours = 0 /\ steps = 0 /\ model = "split" /\ alpha = 0 /\ weather = "clear"
    /\ heap = << >> /\ drivers_rec = << >> /\ drivers_rand = << >>
    /\ day = 0 /\ time_h = 0 /\ total_rec = 0 /\ total_rand = 0
    /\ slot = 0 /\ pc = "idle" /\ revenues_vec = << >> /\ active = << >>
    /\ counts = << >> /\ targets = << >> /\ staying_clusters = << >> /\ movers = << >>
    /\ rec_old = << >> /\ rec_new = << >> /\ rec_rev = << >>
    /\ rnd_old = << >> /\ rnd_new = << >> /\ rnd_rev = << >>

GreedyIdle ==
    /\ g_num_drivers = 0 /\ g_revenues = << >> /\ g_model = "split" /\ g_alpha = 0
    /\ g_counts = << >> /\ g_iter = 0 /\ g_pc = "idle"

OracleIdle ==
    /\ o_df = << >> /\ o_day = 0 /\ o_time = 0 /\ o_weather = "clear"
    /\ o_n_clusters = 0 /\ o_rev = << >> /\ o_pc = "idle"

vars == <<gvars, ovars, svars>>

\* a trial of the two strategies (simulate_once or simulate_path_for_animation)
Init == SimInit /\ GreedyIdle /\ OracleIdle
Next == OnceRec \/ OnceRand \/ AnimRec \/ AnimRand
Spec == Init /\ [][Next]_vars

\* the same trial under the interpreter's scheduling: the slot loop is
\* sequential code, so a step that can be taken is eventually taken
SpecLive == Init /\ [][Next]_vars /\ WF_vars(Next)

\* one call of greedy_macro_allocation, an iteration of its loop per step
AllocInit == GreedyInit /\ OracleIdle /\ SimIdle
AllocNext == GreedyIterate \/ GreedyReturn
SpecAlloc == AllocInit /\ [][AllocNext]_vars

\* one call of expected_revenue_vector
LookupInit == OracleInit /\ GreedyIdle /\ SimIdle
LookupNext == Lookup
SpecOracle == LookupInit /\ [][LookupNext]_vars

\* ------------------------------------------------------------------ claims
\* the population whose part of the slot runs next
NextPop == IF pc = "rec" THEN drivers_rec ELSE drivers_rand

InSlot == pc \in {"rec", "rand"}

\* the revenue the step just taken added for the strategy that ran
SlotGain ==
    IF impl = "once"
    THEN IF pc = "rec" THEN total_rec' - total_rec ELSE total_rand' - total_rand
    ELSE IF pc = "rec" THEN rec_rev'[Len(rec_rev')] ELSE rnd_rev'[Len(rnd_rev')]

AllCounts(K, n) == {c \in [0..(K - 1) -> 0..n] : SumOver(c) = n}

MacroOfCounts(c, revenues, a) ==
    SumOver([k \in DOMAIN revenues |-> macro_saturation(c[k], revenues[k], a)])

\* C1: greedy_macro_allocation returns K integers, each >= 0, whose sum is
\* num_drivers, for either model; for num_drivers = 0 the vector is all zero.
C1_AllocationSumsToDrivers ==
    g_pc = "done" =>
        /\ DOMAIN g_counts = DOMAIN g_revenues
        /\ \A k \in DOMAIN g_counts : g_counts[k] \in Nat
        /\ SumOver(g_counts) = g_num_drivers
        /\ g_counts = greedy_macro_allocation(g_num_drivers, g_revenues, g_model, g_alpha)
        /\ (g_num_drivers = 0 => \A k \in DOMAIN g_counts : g_counts[k] = 0)

C1_Witness ==
    /\ g_pc = "done" /\ g_num_drivers = 3 /\ g_model = "split"
    /\ \E j, k \in DOMAIN g_counts : j /= k /\ g_counts[j] > 0 /\ g_counts[k] > 0

\* C2: under the saturation model with alpha > 0 and non-negative revenues, no
\* vector of K non-negative counts summing to num_drivers has a larger
\* aggregate macro revenue than the counts greedy_macro_allocation returns.
C2_GreedyOptimalForSaturation ==
    (/\ g_pc = "done" /\ g_model = "saturation" /\ g_alpha > 0
     /\ \A k \in DOMAIN g_revenues : g_revenues[k] >= 0)
    => \A c \in AllCounts(Cardinality(DOMAIN g_revenues), g_num_drivers) :
           MacroOfCounts(c, g_revenues, g_alpha)
               <= MacroOfCounts(g_counts, g_revenues, g_alpha)

C2_Witness ==
    /\ g_pc = "done" /\ g_model = "saturation" /\ g_num_drivers = 3
    /\ g_revenues = (0 :> 10 @@ 1 :> 4) /\ g_alpha = DEFAULT_ALPHA
    /\ g_counts = (0 :> 2 @@ 1 :> 1)

\* C3: in every slot and for each strategy the stayers and the movers together
\* are exactly the drivers active at slot start, and each population keeps its
\* n_drivers drivers, every one of them either active or inactive afterwards.
C3_SlotPartition ==
    [][InSlot =>
         /\ Len(staying_clusters') + Len(movers')
              = Cardinality({i \in 1..Len(NextPop) : heap[NextPop[i]].hours_left > 0})
         /\ \A pop \in {drivers_rec', drivers_rand'} :
              /\ Len(pop) = n_drivers
              /\ Cardinality({i \in 1..Len(pop) : heap'[pop[i]].hours_left > 0})
                   + Cardinality({i \in 1..Len(pop) : heap'[pop[i]].hours_left = 0})
                   = n_drivers
              /\ DOMAIN heap' = DOMAIN heap]_vars

C3_Witness ==
    /\ pc = "rand" /\ Len(active) = 2
    /\ Len(staying_clusters) = 1 /\ Len(movers) = 1

\* C4: in every completed slot each driver active at slot start gets
\* hours_left = max(0, hours_left - DT), stayer or mover, and each inactive
\* driver keeps its hours_left; hours_left never increases, is never negative,
\* and a driver that starts a slot with hours_left = DT ends it inactive.
C4_HoursDecrement ==
    [][(InSlot /\ pc' /= "error") =>
         \A i \in 1..Len(NextPop) :
            LET before == heap[NextPop[i]].hours_left
                after == heap'[NextPop[i]].hours_left
            IN  /\ after = IF before > 0
                           THEN (IF before - DT > 0 THEN before - DT ELSE 0)
                           ELSE before
                /\ after <= before
                /\ after >= 0
                /\ (before = DT => after = 0)]_vars

C4_Witness ==
    /\ pc = "rand" /\ slot = 1
    /\ \E i \in 1..Len(drivers_rec) :
          /\ heap[drivers_rec[i]].hours_left = 0
          /\ drivers_rec[i] \in Range(movers)

\* C5: a driver with hours_left = 0 is never active again: in every later slot
\* it gets no target and its cluster and hours_left do not change; a slot in
\* which a strategy has no active driver changes none of its drivers and adds
\* no revenue.
C5_InactiveIsTerminal ==
    [][InSlot =>
         /\ \A i \in 1..Len(NextPop) :
               heap[NextPop[i]].hours_left = 0 =>
                   /\ heap'[NextPop[i]] = heap[NextPop[i]]
                   /\ NextPop[i] \notin Range(active')
                   /\ NextPop[i] \notin Range(movers')
         /\ Len(targets') = Len(active')
         /\ (\A i \in 1..Len(NextPop) : heap[NextPop[i]].hours_left = 0) =>
               /\ heap' = heap
               /\ targets' = << >>
               /\ SlotGain = 0
               /\ pc' /= "error"]_vars

C5_Witness ==
    /\ pc = "rand" /\ slot = 2 /\ Len(movers) = 1
    /\ \E i \in 1..Len(drivers_rec) :
          /\ heap[drivers_rec[i]].hours_left = 0
          /\ drivers_rec[i] \notin Range(active)

\* C6: the revenue a completed slot adds for a strategy is the congestion
\* model summed over the zones of its stayers only (the active drivers whose
\* zone the slot leaves unchanged); movers count at neither zone.
C6_OnlyStayersEarn ==
    [][(InSlot /\ pc' /= "error") =>
         LET stay == {i \in 1..Len(NextPop) :
                         /\ heap[NextPop[i]].hours_left > 0
                         /\ heap'[NextPop[i]].cluster = heap[NextPop[i]].cluster}
             n_at == [k \in 0..(n_clusters - 1) |->
                         Cardinality({i \in stay : heap[NextPop[i]].cluster = k})]
         IN  SlotGain
               = SumOver([k \in 0..(n_clusters - 1) |->
                            IF model = "saturation"
                            THEN macro_saturation(n_at[k], revenues_vec'[k], alpha)
                            ELSE macro_split(n_at[k], revenues_vec'[k])])]_vars

C6_Witness ==
    /\ pc = "rand" /\ model = "saturation"
    /\ Len(staying_clusters) = 1 /\ Len(movers) = 1
    /\ (impl = "once" => total_rec > 0)
    /\ (impl = "anim" => rec_rev[Len(rec_rev)] > 0)

\* C7: with a congestion-model name other than 'saturation' or 'split' the
\* run fails at once: the first step ends in the error, with no allocation
\* produced, no driver changed and no revenue accrued.
C7_UnknownModelFailsFirst ==
    [][(InSlot /\ model \notin ValidModels) =>
         /\ pc' = "error"
         /\ counts' = << >>
         /\ heap' = heap
         /\ total_rec' = total_rec /\ total_rand' = total_rand]_vars

\* C8: every slot sets time to (time + DT) mod 24, and sets day to
\* (day + 1) mod 7 exactly in the slots where the new time is smaller than the
\* old one, whatever the start time; otherwise the day is unchanged.
C8_DayAdvancesOnEveryWrap ==
    [][slot' = slot + 1 =>
         /\ time_h' = (time_h + DT) % DayLen
         /\ day' = IF time_h' < time_h THEN (day + 1) % DaysPerWeek ELSE day]_vars

\* C9: the two strategies start from the same clusters and hours_left, held
\* in separate Driver objects: the part of a slot that one strategy runs
\* leaves every driver of the other population unchanged.
C9_IndependentPopulations ==
    /\ (slot = 0 /\ pc = "rec") =>
          /\ \A i \in 1..n_drivers : heap[drivers_rec[i]] = heap[drivers_rand[i]]
          /\ Len(drivers_rec) = n_drivers /\ Len(drivers_rand) = n_drivers
    /\ [][/\ pc = "rec" =>
               \A i \in 1..n_drivers : heap'[drivers_rand[i]] = heap[drivers_rand[i]]
          /\ pc = "rand" =>
               \A i \in 1..n_drivers : heap'[drivers_rec[i]] = heap[drivers_rec[i]]]_vars

C9_Witness ==
    /\ pc = "rand" /\ slot = 0 /\ Len(movers) >= 1
    /\ \E i \in 1..n_drivers : heap[drivers_rec[i]] /= heap[drivers_rand[i]]

\* C10: expected_revenue_vector returns, for every table and context, a
\* vector with exactly the entries 0..K-1, each of them non-negative.
C10_VectorNonNegative ==
    o_pc = "returned" =>
        /\ DOMAIN o_rev = 0..(o_n_clusters - 1)
        /\ \A k \in DOMAIN o_rev : o_rev[k] >= 0

\* C11: a trial with a valid model name never fails and always reaches its
\* end, after exactly ceil(time_horizon_hours / DT) slots (the least number of
\* slots of length DT that cover the horizon), also with a sparse table and
\* after every driver has become inactive; the animation's trace then holds
\* one entry per slot for each strategy.
C11_TrialCompletes ==
    /\ [](model \in ValidModels => pc /= "error")
    /\ [](pc = "done" =>
            /\ slot = steps
            /\ slot * DT >= time_horizon_hours
            /\ (slot - 1) * DT < time_horizon_hours
            /\ (impl = "anim" => Len(rec_rev) = slot /\ Len(rnd_rev) = slot))
    /\ ((model \in ValidModels) ~> (pc = "done"))

C11_Witness ==
    /\ pc = "done" /\ slot = 3 /\ df_rev = TableSparse /\ n_drivers = 2
    /\ \A id \in DOMAIN heap : heap[id].hours_left = 0

\* the marginal gain of one more driver in zone k, from the congestion models
MarginalGain(cnt, k) ==
    (IF g_model = "saturation"
     THEN macro_saturation(cnt[k] + 1, g_revenues[k], g_alpha)
     ELSE macro_split(cnt[k] + 1, g_revenues[k]))
    - (IF g_model = "saturation"
       THEN macro_saturation(cnt[k], g_revenues[k], g_alpha)
       ELSE macro_split(cnt[k], g_revenues[k]))

\* C12: every iteration of greedy_macro_allocation adds one driver to a zone
\* whose marginal gain is maximal for the current counts, the lowest-indexed
\* one among those tied; revenues [10, 4], alpha 0.6, 3 drivers under
\* saturation give [2, 1]; an all-zero revenue vector puts every driver in
\* zone 0.
C12_LowestIndexMaxGain ==
    /\ [][g_iter' = g_iter + 1 =>
            \E k \in DOMAIN g_revenues :
                /\ g_counts' = [g_counts EXCEPT ![k] = @ + 1]
                /\ \A j \in DOMAIN g_revenues :
                       /\ MarginalGain(g_counts, j) <= MarginalGain(g_counts, k)
                       /\ (j < k => MarginalGain(g_counts, j) < MarginalGain(g_counts, k))]_vars
    /\ [](g_pc = "done" =>
            /\ (/\ g_revenues = (0 :> 10 @@ 1 :> 4) /\ g_alpha = DEFAULT_ALPHA
                /\ g_model = "saturation" /\ g_num_drivers = 3)
                  => g_counts = (0 :> 2 @@ 1 :> 1)
            /\ (\A k \in DOMAIN g_revenues : g_revenues[k] = 0)
                  => /\ g_counts[0] = g_num_drivers
                     /\ \A k \in DOMAIN g_counts : k /= 0 => g_counts[k] = 0)

C12_Witness ==
    /\ g_pc = "done" /\ g_num_drivers = 4
    /\ g_revenues = (0 :> 0 @@ 1 :> 0 @@ 2 :> 0)
    /\ g_counts = (0 :> 4 @@ 1 :> 0 @@ 2 :> 0)

\* a step in which the allocator-driven strategy assigned targets
RecAssigned == pc = "rec" /\ active' /= << >>

\* hours_left at slot start of the i-th active driver of the step
HoursBefore(i) == heap[active'[i]].hours_left

\* the rank (1 = first) of the i-th active driver when the active drivers are
\* ordered by hours_left descending, drivers of equal hours_left in their
\* original relative order
StableRank(i) ==
    1 + Cardinality({j \in 1..Len(active') :
                        \/ HoursBefore(j) > HoursBefore(i)
                        \/ (HoursBefore(j) = HoursBefore(i) /\ j < i)})

\* C13: every active driver gets exactly one target, the entry at its stable
\* rank (hours_left descending, ties in original order) of the flat list that
\* repeats zone k counts[k] times in zone order; so the number of drivers
\* targeted at each zone equals the allocation's count.
C13_StableRankedTargets ==
    [][RecAssigned =>
         /\ Len(targets') = Len(active')
         /\ \A i \in 1..Len(active') : targets'[i] = Slots(counts')[StableRank(i)]
         /\ \A k \in DOMAIN counts' : bincount(targets', k) = counts'[k]]_vars

\* C14 as stated: of two drivers active in the same slot, the one with the
\* smaller hours_left is assigned a zone whose base revenue is at least that
\* of the other's zone.
C14_ShortShiftGetsBestZone ==
    [][RecAssigned =>
         \A i, j \in 1..Len(active') :
             HoursBefore(i) < HoursBefore(j)
                 => revenues_vec'[targets'[i]] >= revenues_vec'[targets'[j]]]_vars

\* C14, amended: of two drivers active in the same slot, the one with the
\* larger hours_left is ranked first and is assigned a zone whose index is at
\* most that of the other's zone; base revenue plays no part in the order.
C14_LongShiftGetsLowestZone ==
    [][RecAssigned =>
         \A i, j \in 1..Len(active') :
             HoursBefore(i) > HoursBefore(j) => targets'[i] <= targets'[j]]_vars

C14_Witness ==
    /\ pc = "rand" /\ slot = 0 /\ Len(active) = 2
    /\ heap[active[1]].hours_left < heap[active[2]].hours_left
    /\ targets = <<1, 0>>
    /\ revenues_vec[0] > revenues_vec[1]

\* the positions of a population whose driver is active
ActiveIndices(h, drivers) == {i \in 1..Len(drivers) : h[drivers[i]].hours_left > 0}

\* C15: simulate_once and simulate_path_for_animation agree slot by slot.
\* From the same drivers, revenue vector and random targets, the part of a
\* slot run by either one leaves every driver with the cluster and hours_left
\* the other one would leave, and adds the revenue the other one would record,
\* also when active drivers have equal hours_left.
C15_ImplementationsAgree ==
    [][(InSlot /\ model \in ValidModels /\ active' /= << >>) =>
         LET act == active'
             cnt == greedy_macro_allocation(Len(act), revenues_vec', model, alpha)
             once == IF pc = "rec"
                     THEN {OncePhase(heap, act, tg, revenues_vec', model, alpha) :
                              tg \in assign_recommendation(heap, act, cnt)}
                     ELSE {OncePhase(heap, act, targets', revenues_vec', model, alpha)}
             anim == IF pc = "rec"
                     THEN AnimPhase(heap, act, AnimTargets(heap, act, cnt),
                                    SortedDesc(HoursOf(heap, act)),
                                    revenues_vec', model, alpha)
                     ELSE AnimPhase(heap, act, targets', IdSeq(Len(act)),
                                    revenues_vec', model, alpha)
         IN  /\ \A r \in once : r.heap = anim.heap /\ r.revenue = anim.revenue
             /\ heap' = anim.heap
             /\ SlotGain = anim.revenue]_vars

\* C16: at the start of every slot driver i of the allocator-driven
\* population and driver i of the random population have the same hours_left,
\* and in every slot the random strategy's active drivers are at the same
\* positions as the allocator-driven strategy's.
C16_ShiftTimeLockstep ==
    /\ [](pc = "rec" =>
            \A i \in 1..n_drivers :
                heap[drivers_rec[i]].hours_left = heap[drivers_rand[i]].hours_left)
    /\ [][pc = "rand" =>
            /\ {i \in 1..n_drivers : drivers_rand[i] \in Range(active')}
                 = {i \in 1..n_drivers : drivers_rec[i] \in Range(active)}
            /\ (pc' \in {"rec", "done"} =>
                   ActiveIndices(heap', drivers_rec) = ActiveIndices(heap', drivers_rand))]_vars

C16_Witness ==
    /\ pc = "rec" /\ slot = 2 /\ n_drivers = 2
    /\ heap[drivers_rec[1]].hours_left = 0
    /\ heap[drivers_rec[2]].hours_left > 0
    /\ heap[drivers_rec[2]].cluster /= heap[drivers_rand[2]].cluster
====
